---- MODULE Spec2Model ----
(***************************************************************************)
(* The active record layer of src/model.py for the Student entity, over a  *)
(* SQLite store reached through the Database gateway.                      *)
(*                                                                         *)
(* Values are tagged: NULL, an integer or a text.  A text is the sequence  *)
(* of its character codes, so that the store's BINARY and NOCASE           *)
(* collations compare what SQLite compares.  SQL text that the code        *)
(* assembles with join()/format() is a sequence of tokens, assembled the   *)
(* same way and parsed again by the store.                                 *)
(***************************************************************************)
EXTENDS Integers, Sequences, FiniteSets, TLC

VARIABLES
    table,          \* the student table as the connection sees it: pk -> row
    seq,            \* the largest primary key the store has assigned
    committed,      \* the student table and id counter as committed to the file
    con_open,       \* whether db.con is an open connection
    default_order,  \* the entity's _default_order, <<>> when it declares none
    objs,           \* the instances the caller holds
    last            \* the last call: its arguments, error, statements and result

vars == <<table, seq, committed, con_open, default_order, objs, last>>

----------------------------------------------------------------------------
(* Bounds *)

\* the largest primary key the store hands out before inserts stop
MaxPk == 2

\* the number of instances the caller holds at a time
MaxObjs == 1

\* the number of rows of the tables the query specification starts from
MaxRows == 2

\* the number of instances the caller holds where instances share rows
MaxHeld == 2

----------------------------------------------------------------------------
(* Values *)

Null == [t |-> "null", n |-> 0, s |-> <<>>]

IntVal(n) == [t |-> "int", n |-> n, s |-> <<>>]

TextVal(s) == [t |-> "text", n |-> 0, s |-> s]

\* a value of a type the driver cannot bind to a statement, such as a list
Unbindable == [t |-> "object", n |-> 0, s |-> <<>>]

Amy == TextVal(<<65, 109, 121>>)

amy == TextVal(<<97, 109, 121>>)

Bob == TextVal(<<66, 111, 98>>)

Young == TextVal(<<89, 111, 117, 110, 103>>)

Zed == TextVal(<<90, 101, 100>>)

\* SQLite's NOCASE folds the 26 ASCII upper case letters onto lower case
Fold(c) == IF c >= 65 /\ c <= 90 THEN c + 32 ELSE c

RECURSIVE CmpCodes(_, _, _)
\* memcmp order of two texts (-1, 0, 1), after folding when nocase
CmpCodes(a, b, nocase) ==
    IF Len(a) = 0 /\ Len(b) = 0 THEN 0
    ELSE IF Len(a) = 0 THEN -1
    ELSE IF Len(b) = 0 THEN 1
    ELSE LET x == IF nocase THEN Fold(Head(a)) ELSE Head(a)
             y == IF nocase THEN Fold(Head(b)) ELSE Head(b)
         IN  IF x < y THEN -1
             ELSE IF x > y THEN 1
             ELSE CmpCodes(Tail(a), Tail(b), nocase)

\* storage class rank: NULL sorts before numbers, numbers before text
Rank(v) == IF v.t = "null" THEN 0 ELSE IF v.t = "int" THEN 1 ELSE 2

\* the store's ordering of two values under a collation
CmpVal(a, b, nocase) ==
    IF Rank(a) < Rank(b) THEN -1
    ELSE IF Rank(a) > Rank(b) THEN 1
    ELSE IF a.t = "null" THEN 0
    ELSE IF a.t = "int" THEN (IF a.n < b.n THEN -1 ELSE IF a.n > b.n THEN 1 ELSE 0)
    ELSE CmpCodes(a.s, b.s, nocase)

\* the store's col = ? : never true when either side is NULL
SqlEq(a, b) == a.t # "null" /\ b.t # "null" /\ CmpVal(a, b, FALSE) = 0

----------------------------------------------------------------------------
(* Entity metadata of Student *)

table_name == "student"

column_names == <<"first_name", "last_name", "alias">>

\* Student._default_order, 'first_name, last_name, pk'
Student_default_order == <<"first_name", ",", "last_name", ",", "pk">>

\* ActiveRecord._default_order, None: what an entity that declares none inherits
ActiveRecord_default_order == <<>>

\* self._column_names + ['pk']
Fields == column_names \o <<"pk">>

Range(s) == {s[k] : k \in 1..Len(s)}

----------------------------------------------------------------------------
(* SQL text, as the code assembles it and as the store reads it *)

RECURSIVE Join(_, _)
\* sep.join(xs), on token sequences
Join(sep, xs) ==
    IF Len(xs) = 0 THEN <<>>
    ELSE IF Len(xs) = 1 THEN xs[1]
    ELSE xs[1] \o sep \o Join(sep, Tail(xs))

\* each name of a list as a one-token text
Toks(names) == [k \in 1..Len(names) |-> <<names[k]>>]

\* ['?'] * n
Marks(n) == [k \in 1..n |-> <<"?">>]

Keywords == {"SELECT", "*", "FROM", "WHERE", "LIMIT", "1", "ORDER", "BY", "COLLATE",
             "NOCASE", "INSERT", "INTO", "VALUES", "UPDATE", "SET", "DELETE",
             "(", ")", ",", "?", "=?", "and", "-", "[", "]", "'"}

IsIdent(t) == t \notin Keywords

NoList == [ok |-> FALSE, cols |-> <<>>]

RECURSIVE ParseList(_, _, _)
\* name suffix (sep name suffix)* : the names, or a syntax error
ParseList(toks, suffix, sep) ==
    LET n == 1 + Len(suffix)
    IN  IF Len(toks) >= n /\ IsIdent(toks[1]) /\ SubSeq(toks, 2, n) = suffix
        THEN IF Len(toks) = n THEN [ok |-> TRUE, cols |-> <<toks[1]>>]
             ELSE IF toks[n + 1] = sep
             THEN LET r == ParseList(SubSeq(toks, n + 2, Len(toks)), suffix, sep)
                  IN  [ok |-> r.ok, cols |-> <<toks[1]>> \o r.cols]
             ELSE NoList
        ELSE NoList

RECURSIVE ParseMarks(_)
\* ? (, ?)* : the number of placeholders, or -1 for a syntax error
ParseMarks(toks) ==
    IF Len(toks) >= 1 /\ toks[1] = "?"
    THEN IF Len(toks) = 1 THEN 1
         ELSE IF toks[2] = ","
         THEN LET r == ParseMarks(SubSeq(toks, 3, Len(toks)))
              IN  IF r < 0 THEN -1 ELSE r + 1
         ELSE -1
    ELSE -1

NoOrder == [ok |-> FALSE, terms |-> <<>>]

\* the first position of token t in toks, 0 when absent
Pos(toks, t) ==
    IF \E k \in 1..Len(toks) : toks[k] = t
    THEN CHOOSE k \in 1..Len(toks) : toks[k] = t /\ \A j \in 1..(k - 1) : toks[j] # t
    ELSE 0

\* the number of tokens of the identifier toks starts with, 0 when it starts
\* with none: a plain name, or any text quoted as [ ... ]
IdentLen(toks) ==
    IF Len(toks) >= 1 /\ toks[1] = "[" /\ Pos(toks, "]") > 0 THEN Pos(toks, "]")
    ELSE IF Len(toks) >= 1 /\ IsIdent(toks[1]) THEN 1
    ELSE 0

\* the name of that identifier; a quoted text that is more than one plain name
\* is a name with a character in it that no column of the schema has
IdentName(toks) ==
    IF toks[1] # "[" THEN toks[1]
    ELSE IF IdentLen(toks) = 3 /\ IsIdent(toks[2]) THEN toks[2]
    ELSE "'"

RECURSIVE ParseOrder(_)
\* ordering terms: [-] name [COLLATE NOCASE] (, term)*
ParseOrder(toks) ==
    LET neg == Len(toks) >= 1 /\ toks[1] = "-"
        a == IF neg THEN Tail(toks) ELSE toks
        n == IdentLen(a)
    IN  IF n = 0 THEN NoOrder
        ELSE LET nocase == Len(a) >= n + 2 /\ a[n + 1] = "COLLATE" /\ a[n + 2] = "NOCASE"
                 b == SubSeq(a, (IF nocase THEN n + 3 ELSE n + 1), Len(a))
                 term == [neg |-> neg, col |-> IdentName(a), nocase |-> nocase]
             IN  IF Len(b) = 0 THEN [ok |-> TRUE, terms |-> <<term>>]
                 ELSE IF b[1] = ","
                 THEN LET r == ParseOrder(Tail(b))
                      IN  [ok |-> r.ok, terms |-> <<term>> \o r.terms]
                 ELSE NoOrder

From(toks, k) == SubSeq(toks, k, Len(toks))

NoStmt ==
    [ok |-> FALSE, verb |-> "", tbl |-> "", cols |-> <<>>, marks |-> 0,
     where |-> <<>>, limit |-> FALSE, ordered |-> FALSE, terms |-> <<>>]

\* SELECT * FROM t [WHERE conds [LIMIT 1] | ORDER BY terms]
ParseSelect(toks) ==
    IF Len(toks) >= 4 /\ SubSeq(toks, 2, 3) = <<"*", "FROM">> /\ IsIdent(toks[4])
    THEN LET rest == From(toks, 5)
             base == [NoStmt EXCEPT !.ok = TRUE, !.verb = "SELECT", !.tbl = toks[4]]
         IN  IF Len(rest) = 0 THEN base
             ELSE IF rest[1] = "WHERE"
             THEN LET n == Len(rest)
                      lim == n >= 3 /\ rest[n - 1] = "LIMIT" /\ rest[n] = "1"
                      body == IF lim THEN SubSeq(rest, 2, n - 2) ELSE From(rest, 2)
                      c == ParseList(body, <<"=?">>, "and")
                  IN  IF c.ok THEN [base EXCEPT !.where = c.cols, !.limit = lim] ELSE NoStmt
             ELSE IF Len(rest) >= 2 /\ rest[1] = "ORDER" /\ rest[2] = "BY"
             THEN LET o == ParseOrder(From(rest, 3))
                  IN  IF o.ok THEN [base EXCEPT !.ordered = TRUE, !.terms = o.terms] ELSE NoStmt
             ELSE NoStmt
    ELSE NoStmt

\* INSERT INTO t ( names ) VALUES ( marks )
ParseInsert(toks) ==
    LET close == Pos(toks, ")")
    IN  IF Len(toks) >= 4 /\ toks[2] = "INTO" /\ IsIdent(toks[3]) /\ toks[4] = "("
           /\ close > 5 /\ Len(toks) >= close + 3
           /\ toks[close + 1] = "VALUES" /\ toks[close + 2] = "("
           /\ toks[Len(toks)] = ")"
        THEN LET c == ParseList(SubSeq(toks, 5, close - 1), <<>>, ",")
                 m == ParseMarks(SubSeq(toks, close + 3, Len(toks) - 1))
             IN  IF c.ok /\ m >= 0
                 THEN [NoStmt EXCEPT !.ok = TRUE, !.verb = "INSERT", !.tbl = toks[3],
                                     !.cols = c.cols, !.marks = m]
                 ELSE NoStmt
        ELSE NoStmt

\* UPDATE t SET assignments WHERE conds
ParseUpdate(toks) ==
    LET w == Pos(toks, "WHERE")
    IN  IF Len(toks) >= 3 /\ IsIdent(toks[2]) /\ toks[3] = "SET" /\ w > 4
        THEN LET a == ParseList(SubSeq(toks, 4, w - 1), <<"=?">>, ",")
                 c == ParseList(From(toks, w + 1), <<"=?">>, "and")
             IN  IF a.ok /\ c.ok
                 THEN [NoStmt EXCEPT !.ok = TRUE, !.verb = "UPDATE", !.tbl = toks[2],
                                     !.cols = a.cols, !.where = c.cols]
                 ELSE NoStmt
        ELSE NoStmt

\* DELETE FROM t WHERE conds
ParseDelete(toks) ==
    IF Len(toks) >= 4 /\ toks[2] = "FROM" /\ IsIdent(toks[3]) /\ toks[4] = "WHERE"
    THEN LET c == ParseList(From(toks, 5), <<"=?">>, "and")
         IN  IF c.ok
             THEN [NoStmt EXCEPT !.ok = TRUE, !.verb = "DELETE", !.tbl = toks[3],
                                 !.where = c.cols]
             ELSE NoStmt
    ELSE NoStmt

\* the store's reading of a statement text
ParseStmt(toks) ==
    IF Len(toks) = 0 THEN NoStmt
    ELSE IF toks[1] = "SELECT" THEN ParseSelect(toks)
    ELSE IF toks[1] = "INSERT" THEN ParseInsert(toks)
    ELSE IF toks[1] = "UPDATE" THEN ParseUpdate(toks)
    ELSE IF toks[1] = "DELETE" THEN ParseDelete(toks)
    ELSE NoStmt

----------------------------------------------------------------------------
(* The store: one table, rows keyed by an integer primary key *)

NoError == ""

\* the columns of the student table: the declared columns and pk
SchemaColumns == Range(Fields)

\* a row as the name-addressable mapping sqlite3.Row gives
RowDict(tbl, pk) ==
    [c \in SchemaColumns |-> IF c = "pk" THEN IntVal(pk) ELSE tbl[pk][c]]

\* the conjunction col1 = ?1 and col2 = ?2 ... on one row
Matches(tbl, pk, cols, args) ==
    \A k \in 1..Len(cols) : SqlEq(RowDict(tbl, pk)[cols[k]], args[k])

RECURSIVE NumPrefix(_, _)
\* the integer a text starts with (its leading decimal digits), 0 when none
NumPrefix(s, acc) ==
    IF Len(s) > 0 /\ Head(s) >= 48 /\ Head(s) <= 57
    THEN NumPrefix(Tail(s), 10 * acc + (Head(s) - 48))
    ELSE acc

\* unary minus: NULL stays NULL, a text is cast to the number it starts with
Neg(v) ==
    IF v.t = "null" THEN Null
    ELSE IF v.t = "int" THEN IntVal(0 - v.n)
    ELSE IntVal(0 - NumPrefix(v.s, 0))

TermVal(row, term) == IF term.neg THEN Neg(row[term.col]) ELSE row[term.col]

RECURSIVE CmpRows(_, _, _)
\* ORDER BY comparison of two rows: the first term that tells them apart
CmpRows(r1, r2, terms) ==
    IF Len(terms) = 0 THEN 0
    ELSE LET t == Head(terms)
             c == CmpVal(TermVal(r1, t), TermVal(r2, t), t.nocase)
         IN  IF c # 0 THEN c ELSE CmpRows(r1, r2, Tail(terms))

\* every order in which the keys of S can come back
Perms(S) ==
    {f \in [1..Cardinality(S) -> S] :
        \A i, j \in 1..Cardinality(S) : i # j => f[i] # f[j]}

\* the row sequences a SELECT may return: the matching rows, in ORDER BY order
\* when there is one and in any order otherwise, cut to one row by LIMIT 1
SelectRows(tbl, st, args) ==
    LET hits == {pk \in DOMAIN tbl : Matches(tbl, pk, st.where, args)}
        orders == {p \in Perms(hits) :
                     st.ordered =>
                        \A i, j \in 1..Cardinality(hits) :
                           i < j => CmpRows(RowDict(tbl, p[i]), RowDict(tbl, p[j]),
                                            st.terms) <= 0}
        n == IF st.limit /\ Cardinality(hits) > 1 THEN 1 ELSE Cardinality(hits)
    IN  {[k \in 1..n |-> RowDict(tbl, p[k])] : p \in orders}

\* the id the store assigns to a new row: one more than any it assigned before
NextRowid(tbl, sq) == sq + 1

\* the value bound to column c by position, NULL when c is not listed
BoundValue(cols, args, c, old) ==
    IF \E k \in 1..Len(cols) : cols[k] = c
    THEN args[CHOOSE k \in 1..Len(cols) : cols[k] = c]
    ELSE old

InsertRow(tbl, sq, st, args) ==
    LET new == NextRowid(tbl, sq)
    IN  [pk \in DOMAIN tbl \cup {new} |->
            IF pk = new
            THEN [c \in Range(column_names) |-> BoundValue(st.cols, args, c, Null)]
            ELSE tbl[pk]]

UpdateRows(tbl, st, args) ==
    LET n == Len(st.cols)
        wargs == SubSeq(args, n + 1, Len(args))
    IN  [pk \in DOMAIN tbl |->
            IF Matches(tbl, pk, st.where, wargs)
            THEN [c \in Range(column_names) |-> BoundValue(st.cols, args, c, tbl[pk][c])]
            ELSE tbl[pk]]

DeleteRows(tbl, st, args) ==
    LET keep == {pk \in DOMAIN tbl : ~Matches(tbl, pk, st.where, args)}
    IN  [pk \in keep |-> tbl[pk]]

StoreFail(tbl, sq, e) ==
    [err |-> e, tbl |-> tbl, seq |-> sq, rowsets |-> {<<>>}, lastrowid |-> 0]

\* a parsed statement run against the table
StoreRun(tbl, sq, st, args) ==
    IF ~st.ok \/ st.tbl # table_name
          \/ ~(Range(st.cols) \cup Range(st.where)
                  \cup {st.terms[k].col : k \in 1..Len(st.terms)} \subseteq SchemaColumns)
    THEN StoreFail(tbl, sq, "OperationalError")
    ELSE IF st.verb = "INSERT" /\ Len(st.cols) # st.marks
    THEN StoreFail(tbl, sq, "OperationalError")
    ELSE IF (IF st.verb = "INSERT" THEN st.marks ELSE Len(st.cols) + Len(st.where))
               # Len(args)
    THEN StoreFail(tbl, sq, "ProgrammingError")
    ELSE IF \E k \in 1..Len(args) : args[k].t = "object"
    THEN StoreFail(tbl, sq, "InterfaceError")
    ELSE IF st.verb = "SELECT"
    THEN [err |-> NoError, tbl |-> tbl, seq |-> sq,
          rowsets |-> SelectRows(tbl, st, args), lastrowid |-> 0]
    ELSE IF st.verb = "INSERT"
    THEN [err |-> NoError, tbl |-> InsertRow(tbl, sq, st, args),
          seq |-> NextRowid(tbl, sq), rowsets |-> {<<>>},
          lastrowid |-> NextRowid(tbl, sq)]
    ELSE IF st.verb = "UPDATE"
    THEN [err |-> NoError, tbl |-> UpdateRows(tbl, st, args), seq |-> sq,
          rowsets |-> {<<>>}, lastrowid |-> 0]
    ELSE [err |-> NoError, tbl |-> DeleteRows(tbl, st, args), seq |-> sq,
          rowsets |-> {<<>>}, lastrowid |-> 0]

\* cur.execute(query, args) in the store: compile, bind, run
StoreExecute(tbl, sq, query, args) == StoreRun(tbl, sq, ParseStmt(query), args)

----------------------------------------------------------------------------
(* Database: the gateway *)

\* what a commit writes to the database file
Durable(tbl, sq) == [tbl |-> tbl, seq |-> sq]

\* mutant: a statement that fails rolls the pending transaction back
Executed_rollback(cur, query, args, commit) ==
    [cur |-> IF cur.err # NoError
             THEN [cur EXCEPT !.tbl = committed.tbl, !.seq = committed.seq]
             ELSE cur,
     sent |-> <<[query |-> query, args |-> args]>>,
     committed |-> IF commit /\ cur.err = NoError THEN Durable(cur.tbl, cur.seq)
                   ELSE committed]

\* what db.execute hands back: the cursor (with the error it raised, if any), the
\* statement that reached the store, and what is committed afterwards
Executed(cur, query, args, commit) ==
    [cur |-> cur, sent |-> <<[query |-> query, args |-> args]>>,
     committed |-> IF commit /\ cur.err = NoError THEN Durable(cur.tbl, cur.seq)
                   ELSE committed]

\* db.execute(query, args, commit): con.cursor() fails on a closed connection,
\* else the statement goes to the store, and is committed when commit is set
DbExecute(query, args, commit) ==
    IF ~con_open
    THEN [cur |-> StoreFail(table, seq, "ProgrammingError"), sent |-> <<>>,
          committed |-> committed]
    ELSE Executed(StoreExecute(table, seq, query, args), query, args, commit)

----------------------------------------------------------------------------
(* ActiveRecord instances *)

\* a slot of the caller that holds no instance
NoObj == [alive |-> FALSE, attrs |-> [c \in Range(Fields) |-> Null], in_db |-> FALSE]

NoKwargs == [c \in {} |-> Null]

\* kwargs.get(column)
KwGet(kwargs, c) == IF c \in DOMAIN kwargs THEN kwargs[c] ELSE Null

\* mutant: an instance constructed with a pk counts as being in the db
Construct_bound(kwargs) ==
    IF DOMAIN kwargs \ Range(Fields) # {}
    THEN [err |-> "TypeError", obj |-> NoObj]
    ELSE [err |-> NoError,
          obj |-> [alive |-> TRUE,
                   attrs |-> [c \in Range(Fields) |-> KwGet(kwargs, c)],
                   in_db |-> KwGet(kwargs, "pk") # Null]]

\* mutant: unknown names are dropped instead of refused
Construct_lenient(kwargs) ==
    [err |-> NoError,
     obj |-> [alive |-> TRUE,
              attrs |-> [c \in Range(Fields) |-> KwGet(kwargs, c)],
              in_db |-> FALSE]]

\* cls(**kwargs): TypeError on a name that is no declared column or pk, else an
\* instance with every field set from kwargs (None when absent), not in the db
Construct(kwargs) ==
    IF DOMAIN kwargs \ Range(Fields) # {}
    THEN [err |-> "TypeError", obj |-> NoObj]
    ELSE [err |-> NoError,
          obj |-> [alive |-> TRUE,
                   attrs |-> [c \in Range(Fields) |-> KwGet(kwargs, c)],
                   in_db |-> FALSE]]

\* what fetchone() gives when no row is left
PyNone == [some |-> FALSE, d |-> NoKwargs]

Some(d) == [some |-> TRUE, d |-> d]

\* cls._from_row(row): cls(**row) raises TypeError when row is None
FromRow(row) ==
    IF ~row.some THEN [err |-> "TypeError", obj |-> NoObj]
    ELSE LET c == Construct(row.d)
         IN  IF c.err # NoError THEN c
             ELSE [err |-> NoError, obj |-> [c.obj EXCEPT !.in_db = TRUE]]

\* [cls._from_row(row) for row in rows]
FromRows(rows) == [k \in 1..Len(rows) |-> FromRow(Some(rows[k])).obj]

\* [getattr(self, attr) for attr in names]
AttrValues(obj, names) == [k \in 1..Len(names) |-> obj.attrs[names[k]]]

Call(op, self, pk, kw, order, err, sent, ret) ==
    [op |-> op, self |-> self, pk |-> pk, kw |-> kw, order |-> order,
     err |-> err, sent |-> sent, ret |-> ret]

----------------------------------------------------------------------------
(* The statements the engine builds *)

GetQuery == <<"SELECT", "*", "FROM", table_name, "WHERE", "pk", "=?", "LIMIT", "1">>

\* '=? and '.join(columns) + '=?' after SELECT * FROM t WHERE
WhereQuery(columns) ==
    <<"SELECT", "*", "FROM", table_name, "WHERE">>
        \o Join(<<"=?", "and">>, Toks(columns)) \o <<"=?">>

\* mutant: the order is never rendered
AllQuery_unordered(order) == <<"SELECT", "*", "FROM", table_name>>

\* with an order: SELECT * FROM t ORDER BY <order> COLLATE NOCASE
AllQuery(order) ==
    IF Len(order) > 0
    THEN <<"SELECT", "*", "FROM", table_name, "ORDER", "BY">> \o order
            \o <<"COLLATE", "NOCASE">>
    ELSE <<"SELECT", "*", "FROM", table_name>>

\* str(order) for a list of names, as format() renders it: ['-a', 'b']; the
\* empty list is false in "order or cls._default_order" and so is no order
ListStr(names) ==
    IF Len(names) = 0 THEN <<>>
    ELSE <<"[">>
            \o Join(<<",">>, [k \in 1..Len(names) |-> <<"'">> \o names[k] \o <<"'">>])
            \o <<"]">>

Reverse(xs) == [k \in 1..Len(xs) |-> xs[Len(xs) + 1 - k]]

\* mutant: the assignments are listed in another order than the values are bound
UpdateQuery_reversed ==
    <<"UPDATE", table_name, "SET">>
        \o Join(<<"=?", ",">>, Toks(Reverse(column_names))) \o <<"=?">>
        \o <<"WHERE", "pk", "=?">>

UpdateQuery ==
    <<"UPDATE", table_name, "SET">>
        \o Join(<<"=?", ",">>, Toks(column_names)) \o <<"=?">>
        \o <<"WHERE", "pk", "=?">>

\* mutant: the columns are listed in another order than the values are bound
InsertQuery_reversed ==
    <<"INSERT", "INTO", table_name, "(">>
        \o Join(<<",">>, Toks(Reverse(column_names)))
        \o <<")", "VALUES", "(">> \o Join(<<",">>, Marks(Len(column_names)))
        \o <<")">>

InsertQuery ==
    <<"INSERT", "INTO", table_name, "(">> \o Join(<<",">>, Toks(column_names))
        \o <<")", "VALUES", "(">> \o Join(<<",">>, Marks(Len(column_names)))
        \o <<")">>

DeleteQuery == <<"DELETE", "FROM", table_name, "WHERE", "pk", "=?">>

----------------------------------------------------------------------------
(* Inputs *)

Slots == 1..MaxObjs

\* primary keys asked for: None and the keys the store can have assigned
PkInputs == {Null} \cup {IntVal(k) : k \in 1..MaxPk}

\* keyword arguments of the constructor calls of the main specification
CtorKwargs ==
    { [first_name |-> Amy, last_name |-> Young],
      [pk |-> IntVal(1), first_name |-> Bob],
      [first_name |-> Amy, bogus |-> Zed] }

\* attribute assignments of the main specification
Assignments == { <<"first_name", Bob>> }

\* criteria of the where() calls of the main specification
Criteria == { [last_name |-> Young] }

\* order arguments of the all() calls of the main specification: None
Orders == { <<>> }

\* every list in which the keys of a dict can be iterated
KeyOrders(kw) == Perms(DOMAIN kw)

----------------------------------------------------------------------------
(* State *)

EmptyTable == [pk \in {} |-> [c \in Range(column_names) |-> Null]]

Init ==
    /\ table = EmptyTable
    /\ seq = 0
    /\ committed = Durable(EmptyTable, 0)
    /\ con_open = TRUE
    /\ default_order = Student_default_order
    /\ objs = [i \in Slots |-> NoObj]
    /\ last = Call("init", 0, Null, NoKwargs, <<>>, NoError, <<>>, <<>>)

\* the store after a call to db.execute
Stored(r) ==
    /\ table' = r.cur.tbl
    /\ seq' = r.cur.seq
    /\ committed' = r.committed
    /\ UNCHANGED <<con_open, default_order>>

----------------------------------------------------------------------------
(* Operations *)

\* x = Student(**kwargs), the caller keeping the instance in slot i
New(i, kwargs) ==
    LET c == Construct(kwargs)
    IN  /\ objs' = IF c.err = NoError THEN [objs EXCEPT ![i] = c.obj] ELSE objs
        /\ last' = Call("new", i, Null, kwargs, <<>>, c.err, <<>>, <<>>)
        /\ UNCHANGED <<table, seq, committed, con_open, default_order>>

\* x.column = value on a declared column
SetAttr(i, column, value) ==
    /\ objs[i].alive
    /\ column \in Range(column_names)
    /\ objs' = [objs EXCEPT ![i].attrs[column] = value]
    /\ last' = Call("setattr", i, Null, NoKwargs, <<>>, NoError, <<>>, <<>>)
    /\ UNCHANGED <<table, seq, committed, con_open, default_order>>

\* the caller keeps the k-th instance of the last result in slot i; it is
\* handed out once, as a second reference to it would be the same object
Keep(i, k) ==
    /\ k \in 1..Len(last.ret)
    /\ last.ret[k].alive
    /\ objs' = [objs EXCEPT ![i] = last.ret[k]]
    /\ last' = [last EXCEPT !.op = "keep", !.self = i, !.ret[k] = NoObj]
    /\ UNCHANGED <<table, seq, committed, con_open, default_order>>

\* row = cur.fetchone(); obj = cls._from_row(row): the ways the call can end
GetCalls(pk, r) ==
    IF r.cur.err # NoError
    THEN {Call("get", 0, pk, NoKwargs, <<>>, r.cur.err, r.sent, <<>>)}
    ELSE {Call("get", 0, pk, NoKwargs, <<>>, o.err, r.sent,
               IF o.err = NoError THEN <<o.obj>> ELSE <<>>) :
            o \in {FromRow(IF Len(rows) = 0 THEN PyNone ELSE Some(rows[1])) :
                     rows \in r.cur.rowsets}}

\* mutant: get() hands the row's values to the instances already held for pk
GetReturn_refresh(pk, r) ==
    /\ Stored(r)
    /\ \E c \in GetCalls(pk, r) :
          /\ last' = c
          /\ objs' = [i \in DOMAIN objs |->
                         IF Len(c.ret) = 1 /\ objs[i].in_db /\ objs[i].attrs["pk"] = pk
                         THEN c.ret[1] ELSE objs[i]]

GetReturn(pk, r) ==
    /\ Stored(r)
    /\ UNCHANGED objs
    /\ last' \in GetCalls(pk, r)

\* Student.get(pk)
Get(pk) == GetReturn(pk, DbExecute(GetQuery, <<pk>>, FALSE))

\* where and all: every row made into an instance
ListReturn(op, kwargs, order, r) ==
    /\ Stored(r)
    /\ UNCHANGED objs
    /\ IF r.cur.err # NoError
       THEN last' = Call(op, 0, Null, kwargs, order, r.cur.err, r.sent, <<>>)
       ELSE \E rows \in r.cur.rowsets :
               last' = Call(op, 0, Null, kwargs, order, NoError, r.sent, FromRows(rows))

\* mutant: the values are bound in another order than the conditions are written
Where_misbound(kwargs) ==
    \E columns \in KeyOrders(kwargs) :
        ListReturn("where", kwargs, <<>>,
                   DbExecute(WhereQuery(columns),
                             [k \in 1..Len(columns) |->
                                kwargs[columns[Len(columns) + 1 - k]]], FALSE))

\* Student.where(**kwargs), the criteria in the order the dict iterates them
Where(kwargs) ==
    \E columns \in KeyOrders(kwargs) :
        ListReturn("where", kwargs, <<>>,
                   DbExecute(WhereQuery(columns),
                             [k \in 1..Len(columns) |-> kwargs[columns[k]]], FALSE))

\* Student.all(order): order or cls._default_order
All(order) ==
    ListReturn("all", NoKwargs, order,
               DbExecute(AllQuery(IF Len(order) > 0 THEN order ELSE default_order),
                         <<>>, FALSE))

\* save on a bound instance: nothing changes on the instance
Updated(i, r) ==
    /\ Stored(r)
    /\ UNCHANGED objs
    /\ last' = Call("save", i, objs[i].attrs["pk"], NoKwargs, <<>>, r.cur.err, r.sent, <<>>)

\* mutant: a bound instance whose row is gone is inserted again
SaveUpdate_upsert(i) ==
    /\ objs[i].alive /\ objs[i].in_db
    /\ IF objs[i].attrs["pk"].n \in DOMAIN table
       THEN Updated(i, DbExecute(UpdateQuery,
                                 AttrValues(objs[i], column_names)
                                     \o <<objs[i].attrs["pk"]>>,
                                 FALSE))
       ELSE /\ seq < MaxPk
            /\ \E r \in {DbExecute(InsertQuery, AttrValues(objs[i], column_names),
                                   FALSE)} :
                  /\ Stored(r)
                  /\ objs' = IF r.cur.err # NoError THEN objs
                             ELSE [objs EXCEPT ![i].attrs["pk"] = IntVal(r.cur.lastrowid)]
                  /\ last' = Call("save", i, objs[i].attrs["pk"], NoKwargs, <<>>,
                                  r.cur.err, r.sent, <<>>)

\* x.save() on a bound instance: UPDATE by pk
SaveUpdate(i) ==
    /\ objs[i].alive /\ objs[i].in_db
    /\ Updated(i, DbExecute(UpdateQuery,
                            AttrValues(objs[i], column_names) \o <<objs[i].attrs["pk"]>>,
                            FALSE))

\* mutant: a pk given at construction is kept instead of the assigned id
Inserted_stale(i, r) ==
    /\ Stored(r)
    /\ objs' = IF r.cur.err # NoError THEN objs
               ELSE [objs EXCEPT ![i].in_db = TRUE,
                                 ![i].attrs["pk"] =
                                     IF @ = Null THEN IntVal(r.cur.lastrowid) ELSE @]
    /\ last' = Call("save", i, objs[i].attrs["pk"], NoKwargs, <<>>, r.cur.err, r.sent, <<>>)

\* mutant: the instance gets its id but is not marked as in the db
Inserted_unbound(i, r) ==
    /\ Stored(r)
    /\ objs' = IF r.cur.err # NoError THEN objs
               ELSE [objs EXCEPT ![i].attrs["pk"] = IntVal(r.cur.lastrowid)]
    /\ last' = Call("save", i, objs[i].attrs["pk"], NoKwargs, <<>>, r.cur.err, r.sent, <<>>)

\* save on an unbound instance: bound, with the assigned id, once the INSERT ran
Inserted(i, r) ==
    /\ Stored(r)
    /\ objs' = IF r.cur.err # NoError THEN objs
               ELSE [objs EXCEPT ![i].in_db = TRUE,
                                 ![i].attrs["pk"] = IntVal(r.cur.lastrowid)]
    /\ last' = Call("save", i, objs[i].attrs["pk"], NoKwargs, <<>>, r.cur.err, r.sent, <<>>)

\* mutant: the instance is marked as in the db before the INSERT is run
SaveInsert_eager(i) ==
    /\ objs[i].alive /\ ~objs[i].in_db
    /\ seq < MaxPk
    /\ \E r \in {DbExecute(InsertQuery, AttrValues(objs[i], column_names), FALSE)} :
          /\ Stored(r)
          /\ objs' = [objs EXCEPT ![i].in_db = TRUE,
                                  ![i].attrs["pk"] =
                                      IF r.cur.err = NoError THEN IntVal(r.cur.lastrowid)
                                      ELSE @]
          /\ last' = Call("save", i, objs[i].attrs["pk"], NoKwargs, <<>>,
                          r.cur.err, r.sent, <<>>)

\* x.save() on an unbound instance: INSERT
SaveInsert(i) ==
    /\ objs[i].alive /\ ~objs[i].in_db
    /\ seq < MaxPk
    /\ Inserted(i, DbExecute(InsertQuery, AttrValues(objs[i], column_names), FALSE))

Save(i) == SaveUpdate(i) \/ SaveInsert(i)

\* delete on a bound instance: unbound, pk None, once the DELETE ran
Deleted(i, r) ==
    /\ Stored(r)
    /\ objs' = IF r.cur.err # NoError THEN objs
               ELSE [objs EXCEPT ![i].in_db = FALSE, ![i].attrs["pk"] = Null]
    /\ last' = Call("delete", i, objs[i].attrs["pk"], NoKwargs, <<>>,
                    r.cur.err, r.sent, <<>>)

\* mutant: the DELETE is sent whether the instance is bound or not
Delete_unguarded(i) ==
    /\ objs[i].alive
    /\ Deleted(i, DbExecute(DeleteQuery, <<objs[i].attrs["pk"]>>, FALSE))

\* x.delete(): DELETE by pk when bound, nothing at all when unbound
Delete(i) ==
    /\ objs[i].alive
    /\ IF objs[i].in_db
       THEN Deleted(i, DbExecute(DeleteQuery, <<objs[i].attrs["pk"]>>, FALSE))
       ELSE /\ UNCHANGED <<table, seq, committed, con_open, default_order, objs>>
            /\ last' = Call("delete", i, objs[i].attrs["pk"], NoKwargs, <<>>,
                            NoError, <<>>, <<>>)

\* the end of a call of db.execute made by the caller itself
Ran(r, commit) ==
    /\ Stored(r)
    /\ UNCHANGED objs
    /\ last' = Call("execute", 0, Null, [commit |-> commit], <<>>, r.cur.err, r.sent, <<>>)

\* db.execute(query, args, commit) called directly
Execute(query, args, commit) ==
    /\ query[1] = "INSERT" => seq < MaxPk
    /\ Ran(DbExecute(query, args, commit), commit)

\* the process stops without close() and a new one loads the module: the
\* connection it opens sees what was committed, and no instance is left
Restart ==
    /\ table' = committed.tbl
    /\ seq' = committed.seq
    /\ con_open' = TRUE
    /\ objs' = [i \in DOMAIN objs |-> NoObj]
    /\ last' = Call("restart", 0, Null, NoKwargs, <<>>, NoError, <<>>, <<>>)
    /\ UNCHANGED <<committed, default_order>>

\* mutant: the connection is closed without a commit
Close_uncommitted ==
    /\ IF con_open
       THEN /\ committed' = committed
            /\ con_open' = FALSE
            /\ last' = Call("close", 0, Null, NoKwargs, <<>>, NoError, <<>>, <<>>)
       ELSE /\ UNCHANGED <<committed, con_open>>
            /\ last' = Call("close", 0, Null, NoKwargs, <<>>, "ProgrammingError", <<>>, <<>>)
    /\ UNCHANGED <<table, seq, default_order, objs>>

\* db.close(): commit, then close the connection
Close ==
    /\ IF con_open
       THEN /\ committed' = Durable(table, seq)
            /\ con_open' = FALSE
            /\ last' = Call("close", 0, Null, NoKwargs, <<>>, NoError, <<>>, <<>>)
       ELSE /\ UNCHANGED <<committed, con_open>>
            /\ last' = Call("close", 0, Null, NoKwargs, <<>>, "ProgrammingError", <<>>, <<>>)
    /\ UNCHANGED <<table, seq, default_order, objs>>

Next ==
    \/ \E i \in Slots, kw \in CtorKwargs : New(i, kw)
    \/ \E i \in Slots, a \in Assignments : SetAttr(i, a[1], a[2])
    \/ \E i \in Slots, k \in 1..MaxPk : Keep(i, k)
    \/ \E pk \in PkInputs : Get(pk)
    \/ \E kw \in Criteria : Where(kw)
    \/ \E order \in Orders : All(order)
    \/ \E i \in Slots : Save(i)
    \/ \E i \in Slots : Delete(i)
    \/ Close

Spec == Init /\ [][Next]_vars

----------------------------------------------------------------------------
(* Queries over given tables *)

\* rows of the tables the query specification starts from
QueryRows ==
    { [first_name |-> Amy, last_name |-> Young, alias |-> Null],
      [first_name |-> Bob, last_name |-> Zed, alias |-> Null],
      [first_name |-> Bob, last_name |-> Young, alias |-> amy],
      [first_name |-> amy, last_name |-> Young, alias |-> Null],
      [first_name |-> Null, last_name |-> Zed, alias |-> Null] }

QueryTables == UNION {[S -> QueryRows] : S \in SUBSET (1..MaxRows)}

\* the values a criterion on each name is tried with
CriterionValues ==
    [first_name |-> {Amy, Bob}, last_name |-> {Young}, alias |-> {Null, amy},
     pk |-> {IntVal(1)}, bogus |-> {Amy}]

QueryCriteria ==
    UNION {{kw \in [S -> UNION {CriterionValues[c] : c \in S}] :
              \A c \in S : kw[c] \in CriterionValues[c]} :
           S \in {T \in SUBSET (DOMAIN CriterionValues) : Cardinality(T) <= 2}}

\* order arguments that are lists of names: ['-first_name'], ['last_name', '-pk']
OrderLists ==
    { << <<"-", "first_name">> >>,
      << <<"last_name">>, <<"-", "pk">> >> }

\* order arguments: None, 'last_name', '-first_name', 'bogus', and the lists
QueryOrders ==
    { <<>>, <<"last_name">>, <<"-", "first_name">>, <<"bogus">> }
        \cup {ListStr(names) : names \in OrderLists}

InitQuery ==
    /\ table \in QueryTables
    /\ seq = MaxRows
    /\ committed = Durable(table, seq)
    /\ con_open = TRUE
    /\ default_order \in {Student_default_order, ActiveRecord_default_order}
    /\ objs = [i \in Slots |-> NoObj]
    /\ last = Call("init", 0, Null, NoKwargs, <<>>, NoError, <<>>, <<>>)

NextQuery ==
    \/ \E pk \in PkInputs : Get(pk)
    \/ \E kw \in QueryCriteria : Where(kw)
    \/ \E order \in QueryOrders : All(order)

SpecQuery == InitQuery /\ [][NextQuery]_vars

----------------------------------------------------------------------------
(* Construction over every set of field names *)

\* the value each name is given when it is supplied
FieldValues ==
    [first_name |-> {Amy}, last_name |-> {Young}, alias |-> {amy},
     pk |-> {IntVal(1), Null}, bogus |-> {Zed}, extra |-> {Bob}]

AllKwargs ==
    UNION {{kw \in [S -> UNION {FieldValues[c] : c \in S}] :
              \A c \in S : kw[c] \in FieldValues[c]} :
           S \in SUBSET (DOMAIN FieldValues)}

NextCtor == \E i \in Slots, kw \in AllKwargs : New(i, kw)

SpecCtor == Init /\ [][NextCtor]_vars

----------------------------------------------------------------------------
(* Saves and deletes that the store refuses *)

FailKwargs == { [first_name |-> Amy] }

\* x.alias = [1], and x.alias = None to put it right again
FailAssignments == { <<"alias", Unbindable>>, <<"alias", Null>> }

NextFail ==
    \/ \E i \in Slots, kw \in FailKwargs : New(i, kw)
    \/ \E i \in Slots, a \in FailAssignments : SetAttr(i, a[1], a[2])
    \/ \E i \in Slots : Save(i)
    \/ \E i \in Slots : Delete(i)
    \/ Close

SpecFail == Init /\ [][NextFail]_vars

----------------------------------------------------------------------------
(* Several instances of the same rows *)

HeldSlots == 1..MaxHeld

SharedKwargs == { [first_name |-> Amy, last_name |-> Young] }

\* the table after earlier saves and deletes have left one row, the last one
\* inserted, so that the store has one more id to assign
InitShared ==
    /\ seq = MaxPk - 1
    /\ table = [pk \in {seq} |-> [first_name |-> Amy, last_name |-> Young, alias |-> Null]]
    /\ committed = Durable(table, seq)
    /\ con_open = TRUE
    /\ default_order = Student_default_order
    /\ objs = [i \in HeldSlots |-> NoObj]
    /\ last = Call("init", 0, Null, NoKwargs, <<>>, NoError, <<>>, <<>>)

NextShared ==
    \/ \E i \in HeldSlots, kw \in SharedKwargs : New(i, kw)
    \/ \E i \in HeldSlots, a \in Assignments : SetAttr(i, a[1], a[2])
    \/ \E i \in HeldSlots, k \in 1..MaxPk : Keep(i, k)
    \/ \E pk \in PkInputs : Get(pk)
    \/ \E kw \in Criteria : Where(kw)
    \/ \E order \in Orders : All(order)
    \/ \E i \in HeldSlots : Save(i)
    \/ \E i \in HeldSlots : Delete(i)

SpecShared == InitShared /\ [][NextShared]_vars

----------------------------------------------------------------------------
(* Transactions: writes, commits, close and a process that stops *)

\* statements the caller runs through db.execute itself
RawStatements ==
    { [query |-> <<"UPDATE", table_name, "SET", "alias", "=?", "WHERE", "pk", "=?">>,
       args |-> <<amy, IntVal(1)>>],
      [query |-> <<"UPDATE", table_name, "SET", "WHERE">>, args |-> <<>>] }

NextTxn ==
    \/ \E i \in Slots, kw \in FailKwargs : New(i, kw)
    \/ \E i \in Slots : Save(i)
    \/ \E i \in Slots : Delete(i)
    \/ \E st \in RawStatements, commit \in BOOLEAN : Execute(st.query, st.args, commit)
    \/ Close
    \/ Restart

SpecTxn == Init /\ [][NextTxn]_vars

----------------------------------------------------------------------------
(* Properties *)

\* the declared column values of an instance
Columns(obj) == [c \in Range(column_names) |-> obj.attrs[c]]

\* what Student.get(pk) can return in the current state
GetResult(pk) == GetCalls(pk, DbExecute(GetQuery, <<pk>>, FALSE))

\* the bound instance whose fields are attrs
BoundObj(attrs) == [alive |-> TRUE, attrs |-> attrs, in_db |-> TRUE]

\* the last call was a save() that ran verb and raised nothing
SavedBy(verb) ==
    /\ last.op = "save"
    /\ last.err = NoError
    /\ Len(last.sent) = 1
    /\ last.sent[1].query[1] = verb

\* this step is a call of op on the instance in slot i
StepOn(op, i) == last'.op = op /\ last'.self = i /\ objs[i].alive

\* C1: an unbound record, saved, is fetched back by its assigned pk with the
\* column values and the pk it has: right after a successful insert-path save,
\* get(record.pk) raises nothing and returns a bound instance with those values
C1_RoundTrip ==
    SavedBy("INSERT") =>
        \A c \in GetResult(objs[last.self].attrs["pk"]) :
            /\ c.err = NoError
            /\ c.ret = <<BoundObj(objs[last.self].attrs)>>

\* a record with a null and two distinct non-null columns has just been inserted
C1_Witness ==
    /\ SavedBy("INSERT")
    /\ objs[last.self].attrs["first_name"] = Bob
    /\ objs[last.self].attrs["last_name"] = Young
    /\ objs[last.self].attrs["alias"] = Null
    /\ objs[last.self].attrs["pk"] = IntVal(2)

\* C2: get(pk) for a pk with no row fails with NotFoundError, returns no
\* instance and leaves the store unchanged
C2_GetMissing ==
    [][\A pk \in PkInputs :
          (last'.op = "get" /\ last'.pk = pk /\ con_open
             /\ ~(pk.t = "int" /\ pk.n \in DOMAIN table))
          => /\ last'.err = "NotFoundError"
             /\ last'.ret = <<>>
             /\ UNCHANGED <<table, seq, committed>>]_vars

\* C3: a successful save() of an unbound instance adds exactly one row, holding
\* the instance's column values, leaves every other row alone, sets the
\* instance's pk to the id of the new row and makes the instance bound
C3_InsertSave ==
    [][\A i \in Slots :
          (StepOn("save", i) /\ ~objs[i].in_db /\ last'.err = NoError)
          => \E new \in (DOMAIN table') \ (DOMAIN table) :
                /\ DOMAIN table' = DOMAIN table \cup {new}
                /\ \A pk \in DOMAIN table : table'[pk] = table[pk]
                /\ table'[new] = Columns(objs[i])
                /\ objs' = [objs EXCEPT ![i].attrs["pk"] = IntVal(new),
                                        ![i].in_db = TRUE]]_vars

\* an instance constructed with pk 1 was inserted as row 2, next to row 1
C3_Witness ==
    /\ SavedBy("INSERT")
    /\ last.pk = IntVal(1)
    /\ objs[last.self].attrs["pk"] = IntVal(2)
    /\ objs[last.self].in_db
    /\ DOMAIN table = {1, 2}

\* a save() of a bound instance that raises nothing, on a row that exists,
\* changes that row to the instance's column values and nothing else
C4_Frame ==
    \A i \in Slots :
       (StepOn("save", i) /\ objs[i].in_db /\ last'.err = NoError
          /\ objs[i].attrs["pk"].t = "int" /\ objs[i].attrs["pk"].n \in DOMAIN table)
       => /\ DOMAIN table' = DOMAIN table
          /\ \A pk \in DOMAIN table :
                pk # objs[i].attrs["pk"].n => table'[pk] = table[pk]
          /\ table'[objs[i].attrs["pk"].n] = Columns(objs[i])
          /\ objs' = objs
          /\ seq' = seq

\* right after such a save, get(pk) returns the instance's values
C4_Fetch ==
    (SavedBy("UPDATE") /\ objs[last.self].attrs["pk"].t = "int"
        /\ objs[last.self].attrs["pk"].n \in DOMAIN table)
    => \A c \in GetResult(objs[last.self].attrs["pk"]) :
          c.err = NoError /\ c.ret = <<BoundObj(objs[last.self].attrs)>>

\* C4: a successful save() of a bound instance whose row exists adds no row,
\* changes no other row, leaves the instance's pk and bound flag as they were,
\* and get(pk) then returns the instance's new column values
C4_UpdateSave == [][C4_Frame]_vars /\ []C4_Fetch

\* row 1 was inserted as Amy, changed to Bob on the instance and saved, with
\* another row in the table
C4_Witness ==
    /\ SavedBy("UPDATE")
    /\ objs[last.self].attrs["pk"] = IntVal(1)
    /\ objs[last.self].attrs["first_name"] = Bob
    /\ objs[last.self].attrs["last_name"] = Young
    /\ 1 \in DOMAIN table /\ table[1]["first_name"] = Bob
    /\ 2 \in DOMAIN table

\* C5: a successful delete() of a bound instance removes the row with its pk,
\* sets its pk to None and its bound flag to false, and get with the pk it held
\* then fails with NotFoundError
C5_Delete ==
    [][\A i \in Slots :
          (StepOn("delete", i) /\ objs[i].in_db /\ last'.err = NoError
              /\ objs[i].attrs["pk"].t = "int")
          => /\ objs[i].attrs["pk"].n \notin DOMAIN table'
             /\ objs' = [objs EXCEPT ![i].attrs["pk"] = Null, ![i].in_db = FALSE]
             /\ (\A c \in GetResult(objs[i].attrs["pk"]) :
                    c.err = "NotFoundError" /\ c.ret = <<>>)']_vars

\* C6: delete() on an unbound instance raises nothing, sends no statement and
\* leaves the store and the instance as they were
C6_DeleteUnbound ==
    [][\A i \in Slots :
          (StepOn("delete", i) /\ ~objs[i].in_db)
          => /\ last'.err = NoError
             /\ last'.sent = <<>>
             /\ UNCHANGED <<table, seq, committed, con_open, objs>>]_vars

\* delete() was called on an unbound instance while row 1 is in the table
C6_Witness ==
    /\ last.op = "delete"
    /\ last.sent = <<>>
    /\ objs[last.self].alive /\ ~objs[last.self].in_db
    /\ 1 \in DOMAIN table

\* C7: constructing with names that are all declared columns or pk gives an
\* unbound instance with the supplied fields set and the others None; with any
\* other name it raises the constructor's validation error (a TypeError in this
\* code) and gives no instance
C7_Construct ==
    [][last'.op = "new"
       => IF DOMAIN last'.kw \subseteq Range(column_names) \cup {"pk"}
          THEN /\ last'.err = NoError
               /\ objs' = [objs EXCEPT ![last'.self] =
                             [alive |-> TRUE,
                              attrs |-> [c \in Range(column_names) \cup {"pk"} |->
                                           IF c \in DOMAIN last'.kw THEN last'.kw[c]
                                           ELSE Null],
                              in_db |-> FALSE]]
          ELSE /\ last'.err = "TypeError"
               /\ objs' = objs]_vars

\* a call with an unknown name has failed and left the instance of an earlier
\* call, made from alias and pk alone, as it was
C7_Witness ==
    /\ last.op = "new"
    /\ last.err = "TypeError"
    /\ DOMAIN last.kw = {"first_name", "bogus"}
    /\ objs[last.self] =
          [alive |-> TRUE,
           attrs |-> [first_name |-> Null, last_name |-> Null, alias |-> amy,
                      pk |-> IntVal(1)],
           in_db |-> FALSE]

\* ret holds one bound instance for each row of pks, and nothing else
Lists(ret, pks) ==
    /\ Len(ret) = Cardinality(pks)
    /\ \A pk \in pks : \E k \in 1..Len(ret) : ret[k] = BoundObj(RowDict(table, pk))

\* the last call was a where() with criteria, all on columns of the table
WhereCalled ==
    /\ last.op = "where"
    /\ DOMAIN last.kw # {}
    /\ DOMAIN last.kw \subseteq SchemaColumns
    /\ Len(last.sent) = 1

\* C8 as stated: where(criteria) returns one bound instance for each row whose
\* value in every criterion's column equals the criterion's value, and no other
C8_WhereEqual ==
    WhereCalled =>
        /\ last.err = NoError
        /\ Lists(last.ret,
                 {pk \in DOMAIN table :
                    \A c \in DOMAIN last.kw : RowDict(table, pk)[c] = last.kw[c]})

\* C8, amended: where(criteria) returns one bound instance for each row whose
\* value in every criterion's column is not null and equals the criterion's
\* value, itself not null, and no other: a null criterion matches no row
C8_WhereSqlEqual ==
    WhereCalled =>
        /\ last.err = NoError
        /\ Lists(last.ret,
                 {pk \in DOMAIN table :
                    \A c \in DOMAIN last.kw :
                       /\ last.kw[c].t # "null"
                       /\ RowDict(table, pk)[c].t # "null"
                       /\ RowDict(table, pk)[c] = last.kw[c]})

\* two criteria have picked one of two rows that agree on the first criterion
C8_Witness ==
    /\ WhereCalled
    /\ last.kw = [first_name |-> Bob, last_name |-> Young]
    /\ DOMAIN table = {1, 2}
    /\ table[1]["first_name"] = Bob /\ table[1]["last_name"] = Zed
    /\ table[2]["first_name"] = Bob /\ table[2]["last_name"] = Young
    /\ Len(last.ret) = 1
    /\ last.ret[1].attrs["pk"] = IntVal(2)

\* C9: where() with no criteria fails with InvalidQueryError, returns nothing
\* and sends no statement to the store
C9_WhereEmpty ==
    (last.op = "where" /\ DOMAIN last.kw = {} /\ con_open)
    => /\ last.err = "InvalidQueryError"
       /\ last.ret = <<>>
       /\ last.sent = <<>>

\* a before b in Student's default order: by first_name, last_name, then pk
DefaultLeq(a, b) ==
    LET f == CmpVal(a.attrs["first_name"], b.attrs["first_name"], FALSE)
        l == CmpVal(a.attrs["last_name"], b.attrs["last_name"], FALSE)
    IN  \/ f < 0
        \/ f = 0 /\ l < 0
        \/ f = 0 /\ l = 0 /\ a.attrs["pk"].n <= b.attrs["pk"].n

\* C10: all() without an order returns every row once as a bound instance; in
\* the declared default order when the entity has one, and from a statement
\* without ORDER BY when it has none
C10_AllDefault ==
    (last.op = "all" /\ last.order = <<>> /\ con_open)
    => /\ last.err = NoError
       /\ Lists(last.ret, DOMAIN table)
       /\ Len(last.sent) = 1
       /\ IF default_order = Student_default_order
          THEN \A i, j \in 1..Len(last.ret) :
                  i < j => DefaultLeq(last.ret[i], last.ret[j])
          ELSE last.sent[1].query = <<"SELECT", "*", "FROM", table_name>>

\* (Bob, Zed) was inserted before (Amy, Young), and all() lists Amy first
C10_Witness ==
    /\ last.op = "all" /\ last.order = <<>>
    /\ default_order = Student_default_order
    /\ DOMAIN table = {1, 2}
    /\ table[1]["first_name"] = Bob /\ table[1]["last_name"] = Zed
    /\ table[2]["first_name"] = Amy /\ table[2]["last_name"] = Young
    /\ Len(last.ret) = 2
    /\ last.ret[1].attrs["first_name"] = Amy
    /\ last.ret[2].attrs["first_name"] = Bob

RECURSIVE ListCmp(_, _, _)
\* a against b (-1, 0, 1) by a list of names: the first name that tells them
\* apart, text compared without case, the other way round under a '-'
ListCmp(a, b, names) ==
    IF Len(names) = 0 THEN 0
    ELSE LET name == Head(names)
             col == name[Len(name)]
             c == CmpVal(a.attrs[col], b.attrs[col], TRUE)
             d == IF name[1] = "-" THEN 0 - c ELSE c
         IN  IF d # 0 THEN d ELSE ListCmp(a, b, Tail(names))

\* C11: all(order) with a list of column names, each optionally with '-',
\* raises nothing and returns every row once, sorted by those columns in list
\* order, descending under a '-' and ascending otherwise, text without case
C11_AllListOrder ==
    \A names \in OrderLists :
        (last.op = "all" /\ last.order = ListStr(names) /\ con_open)
        => /\ last.err = NoError
           /\ Lists(last.ret, DOMAIN table)
           /\ \A i, j \in 1..Len(last.ret) :
                 i < j => ListCmp(last.ret[i], last.ret[j], names) <= 0

\* the order names something that is no declared column and not pk
Undeclared(order) ==
    \E k \in 1..Len(order) : IsIdent(order[k]) /\ order[k] \notin Range(Fields)

\* C12: all(order) with an order that names anything but the declared columns
\* and pk fails with InvalidQueryError, returns nothing, and no statement
\* reaches the store
C12_AllUndeclared ==
    (last.op = "all" /\ Undeclared(last.order) /\ con_open)
    => /\ last.err = "InvalidQueryError"
       /\ last.ret = <<>>
       /\ last.sent = <<>>

\* the statement of this call on the instance in slot i cannot be run: the
\* connection is closed, or a save has a value to bind that cannot be bound
Refused(i) ==
    \/ ~con_open
    \/ last'.op = "save" /\ \E c \in Range(column_names) : objs[i].attrs[c] = Unbindable

\* C13: when the statement of a save() (insert or update) or of a delete() of a
\* bound instance is refused, the call raises the error, and the instance (its
\* pk and bound flag with it) and the table are what they were before the call
C13_NoTransition ==
    [][\A i \in Slots :
          (StepOn("save", i) \/ (StepOn("delete", i) /\ objs[i].in_db))
          => /\ Refused(i) =>
                   last'.err = IF ~con_open THEN "ProgrammingError" ELSE "InterfaceError"
             /\ last'.err # NoError =>
                   /\ objs' = objs
                   /\ table' = table
                   /\ seq' = seq]_vars

\* an insert-path save was refused by the store on an open connection, next to
\* a row saved before, and the instance is still unbound without a pk
C13_Witness ==
    /\ last.op = "save"
    /\ last.err = "InterfaceError"
    /\ Len(last.sent) = 1 /\ last.sent[1].query[1] = "INSERT"
    /\ con_open
    /\ ~objs[last.self].in_db
    /\ objs[last.self].attrs["pk"] = Null
    /\ DOMAIN table = {1}

\* C14: the pk a successful insert-path save gives the instance is the pk of
\* no row in the table and is larger than every pk the store assigned before
\* (seq, which never decreases, so also after deletes), hence never used before
C14_FreshPk ==
    [][/\ seq' >= seq
       /\ \A pk \in DOMAIN table' : pk <= seq'
       /\ \A i \in Slots :
             (StepOn("save", i) /\ ~objs[i].in_db /\ last'.err = NoError)
             => /\ objs'[i].attrs["pk"].t = "int"
                /\ objs'[i].attrs["pk"].n \notin DOMAIN table
                /\ objs'[i].attrs["pk"].n > seq
                /\ objs'[i].attrs["pk"].n = seq'
                /\ objs'[i].attrs["pk"].n \in DOMAIN table']_vars

\* row 1 was inserted and deleted, and the next insert was given pk 2, not 1
C14_Witness ==
    /\ SavedBy("INSERT")
    /\ objs[last.self].attrs["pk"] = IntVal(2)
    /\ DOMAIN table = {2}

\* C15: an instance is bound if and only if the table holds a row whose pk is
\* the instance's pk
C15_BoundIffRow ==
    \A i \in DOMAIN objs :
        objs[i].alive =>
            (objs[i].in_db <=>
                (objs[i].attrs["pk"].t = "int" /\ objs[i].attrs["pk"].n \in DOMAIN table))

\* C16: close() on an open connection commits everything written before it
\* and raises nothing; save() and delete() commit nothing themselves; a direct
\* execute() commits when called with commit=True and succeeding, and not
\* otherwise; and when the process stops without close(), what the next one
\* finds is what was committed: the writes since are lost
C16_CloseCommits ==
    [][/\ (last'.op = "close" /\ con_open)
          => /\ last'.err = NoError
             /\ committed' = Durable(table, seq)
             /\ ~con_open'
       /\ last'.op \in {"save", "delete"} => committed' = committed
       /\ last'.op = "execute"
          => committed' = IF last'.kw.commit /\ last'.err = NoError
                          THEN Durable(table', seq')
                          ELSE committed
       /\ last'.op = "restart"
          => /\ table' = committed.tbl
             /\ committed' = committed]_vars

\* two saves, then close(): both rows are committed, as the saves left them
C16_Witness ==
    /\ last.op = "close"
    /\ last.err = NoError
    /\ DOMAIN committed.tbl = {1, 2}
    /\ committed.tbl[1]["alias"] = Null
    /\ committed.tbl[2]["alias"] = Null

\* C17: save() on a bound instance whose pk is the pk of no row sends its
\* UPDATE, raises nothing, and leaves the table, the id counter and every
\* instance (this one bound, with its pk) as they were
C17_StaleSave ==
    [][\A i \in DOMAIN objs :
          (StepOn("save", i) /\ objs[i].in_db /\ con_open
              /\ objs[i].attrs["pk"].t = "int"
              /\ objs[i].attrs["pk"].n \notin DOMAIN table)
          => /\ last'.err = NoError
             /\ Len(last'.sent) = 1 /\ last'.sent[1].query = UpdateQuery
             /\ table' = table
             /\ seq' = seq
             /\ objs' = objs]_vars

\* row 1 was deleted through another instance, which was then saved again as
\* row 2; the first instance, changed and saved, is still bound to pk 1
C17_Witness ==
    /\ SavedBy("UPDATE")
    /\ objs[last.self].in_db
    /\ objs[last.self].attrs["pk"] = IntVal(1)
    /\ objs[last.self].attrs["first_name"] = Bob
    /\ DOMAIN table = {2}
    /\ table[2]["first_name"] = Amy

\* a call that ran a statement and raised leaves the connection's table, the
\* id counter and what is committed as they were: nothing rolled back, nothing
\* committed
C18_Frame ==
    (last'.op \in {"execute", "save", "delete"} /\ last'.err # NoError)
    => /\ table' = table
       /\ seq' = seq
       /\ committed' = committed
       /\ con_open' = con_open

\* once close() has returned, the table as the connection saw it is committed
C18_Closed ==
    (last.op = "close" /\ last.err = NoError) => committed = Durable(table, seq)

\* C18: a statement that fails after uncommitted writes neither rolls them back
\* nor commits them: they stay pending, and a later close() commits them
C18_FailureKeepsPending == [][C18_Frame]_vars /\ []C18_Closed

\* two rows were saved and not committed when a malformed statement failed on
\* the open connection: both rows are still there, still uncommitted
C18_Witness ==
    /\ last.op = "execute"
    /\ last.err = "OperationalError"
    /\ con_open
    /\ DOMAIN table = {1, 2}
    /\ DOMAIN committed.tbl = {}

\* the instance in slot i holds a pk without being bound: it is not marked as
\* in the db, or the constructor has just made it from keyword arguments
HoldsOwnPk(i) ==
    /\ objs[i].alive
    /\ objs[i].attrs["pk"].t = "int"
    /\ \/ ~objs[i].in_db
       \/ last.op = "new" /\ last.self = i /\ last.err = NoError

\* C19: for an unbound instance that holds a pk k of its own, save() sends an
\* INSERT and, when it succeeds, leaves every row that was there (row k too)
\* as it was and sets the instance's pk to the id of the one new row; delete()
\* sends nothing, removes no row and leaves the instance with its pk k
C19_ExplicitPk ==
    [][\A i \in Slots :
          (HoldsOwnPk(i) /\ last'.self = i)
          => /\ (last'.op = "save" /\ con_open)
                => /\ Len(last'.sent) = 1 /\ last'.sent[1].query = InsertQuery
                   /\ last'.err = NoError
                   /\ \A pk \in DOMAIN table :
                         pk \in DOMAIN table' /\ table'[pk] = table[pk]
                   /\ \E new \in (DOMAIN table') \ (DOMAIN table) :
                         /\ DOMAIN table' = DOMAIN table \cup {new}
                         /\ objs'[i].attrs["pk"] = IntVal(new)
             /\ last'.op = "delete"
                => /\ last'.sent = <<>>
                   /\ table' = table
                   /\ objs' = objs]_vars

\* Student(pk=1, first_name='Bob') was saved while row 1 held Amy: row 1 still
\* holds Amy, Bob is row 2, and the instance's pk is now 2
C19_Witness ==
    /\ SavedBy("INSERT")
    /\ last.pk = IntVal(1)
    /\ DOMAIN table = {1, 2}
    /\ table[1]["first_name"] = Amy
    /\ table[2]["first_name"] = Bob
    /\ objs[last.self].attrs["pk"] = IntVal(2)

\* C20: get, where and all change no row and no instance the caller holds, and
\* an assignment, save or delete on one instance changes no other instance,
\* so that instances fetched for the same pk do not follow one another
C20_ReadOnly ==
    [][/\ last'.op \in {"get", "where", "all"}
          => /\ table' = table
             /\ seq' = seq
             /\ objs' = objs
       /\ \A i \in DOMAIN objs :
             (last'.op \in {"setattr", "save", "delete"} /\ last'.self = i)
             => \A j \in DOMAIN objs : j # i => objs'[j] = objs[j]]_vars

\* two bound instances of one row, the first assigned Bob and then read again
\* by a get of its pk: the instance in the second slot still holds Amy
C20_Witness ==
    /\ last.op = "get" /\ last.err = NoError
    /\ objs[1].in_db /\ objs[2].in_db
    /\ objs[1].attrs["pk"] = last.pk
    /\ objs[2].attrs["pk"] = last.pk
    /\ objs[1].attrs["first_name"] = Bob
    /\ objs[2].attrs["first_name"] = Amy
    /\ last.ret[1].attrs["first_name"] = Amy

====
